---- MODULE Spec2Model ----
(***************************************************************************)
(* Model of backend/app.py: the Flask handler api_run of POST /api/run,    *)
(* the simulation adapter run_pybamm_simulation and the plot renderer      *)
(* make_voltage_plot_png_base64, together with the process-wide state      *)
(* they touch (pyplot's figure registry).                                  *)
(*                                                                         *)
(* Python values are modelled as follows.                                  *)
(*   float   a record [k, v]: k = "fin" and v the value in units of        *)
(*           1/Resolution, or k in {"nan", "inf", "ninf"}.                 *)
(*   str     a sequence of one-character strings (so that upper(),         *)
(*           float(str) and str(x) are computed, not assumed).             *)
(*   JSON    a record [t, n, s]: t the JSON type, n the number, s the      *)
(*           string; t = "absent" marks a key the object does not hold.    *)
(* Exception texts (str(e)) are atomic strings.                            *)
(***************************************************************************)
EXTENDS Integers, Sequences, FiniteSets, TLC

(* ------------------------------ bounds -------------------------------- *)

\* floats are multiples of 1/Resolution
Resolution == 2
\* the solver returns arrays of at most MaxLen points
MaxLen == 2
\* requests the server receives in one run
MaxRequests == 2

(* ------------------------------ floats -------------------------------- *)

Fin(n) == [k |-> "fin", v |-> n]
NaN == [k |-> "nan", v |-> 0]
PosInf == [k |-> "inf", v |-> 0]
NegInf == [k |-> "ninf", v |-> 0]

\* a <= b on Python floats: every comparison with nan is False
Le(a, b) ==
    /\ a.k # "nan"
    /\ b.k # "nan"
    /\ \/ a.k = "ninf"
       \/ b.k = "inf"
       \/ a.k = "fin" /\ b.k = "fin" /\ a.v <= b.v

\* a > b on Python floats
Gt(a, b) ==
    /\ a.k # "nan"
    /\ b.k # "nan"
    /\ \/ a.k = "inf" /\ b.k # "inf"
       \/ b.k = "ninf" /\ a.k # "ninf"
       \/ a.k = "fin" /\ b.k = "fin" /\ a.v > b.v

Sign(a) == IF a.k = "inf" THEN 1
           ELSE IF a.k = "ninf" THEN -1
           ELSE IF a.v > 0 THEN 1 ELSE IF a.v < 0 THEN -1 ELSE 0

\* float multiplication
Mul(a, b) ==
    IF a.k = "nan" \/ b.k = "nan" THEN NaN
    ELSE IF a.k = "fin" /\ b.k = "fin" THEN Fin((a.v * b.v) \div Resolution)
    ELSE IF Sign(a) * Sign(b) = 0 THEN NaN
    ELSE IF Sign(a) * Sign(b) > 0 THEN PosInf ELSE NegInf

\* unary minus
Neg(a) ==
    IF a.k = "fin" THEN Fin(-a.v)
    ELSE IF a.k = "inf" THEN NegInf
    ELSE IF a.k = "ninf" THEN PosInf
    ELSE NaN

\* a / b for a finite, non-zero divisor b
Div(a, b) ==
    IF a.k = "fin" THEN Fin((a.v * Resolution) \div b.v)
    ELSE IF a.k = "nan" THEN NaN
    ELSE IF b.v > 0 THEN a ELSE Neg(a)

(* ------------------------------ strings ------------------------------- *)

LowerCase == <<"a", "b", "c", "d", "e", "f", "g", "h", "i", "j", "k", "l", "m",
               "n", "o", "p", "q", "r", "s", "t", "u", "v", "w", "x", "y", "z">>
UpperCase == <<"A", "B", "C", "D", "E", "F", "G", "H", "I", "J", "K", "L", "M",
               "N", "O", "P", "Q", "R", "S", "T", "U", "V", "W", "X", "Y", "Z">>
Digits == <<"0", "1", "2", "3", "4", "5", "6", "7", "8", "9">>

UpperChar(c) ==
    IF \E i \in DOMAIN LowerCase : LowerCase[i] = c
    THEN UpperCase[CHOOSE i \in DOMAIN LowerCase : LowerCase[i] = c]
    ELSE c

LowerChar(c) ==
    IF \E i \in DOMAIN UpperCase : UpperCase[i] = c
    THEN LowerCase[CHOOSE i \in DOMAIN UpperCase : UpperCase[i] = c]
    ELSE c

\* str.upper()
Upper(s) == [i \in 1..Len(s) |-> UpperChar(s[i])]

Lower(s) == [i \in 1..Len(s) |-> LowerChar(s[i])]

IsDigit(c) == \E i \in DOMAIN Digits : Digits[i] = c

DigitValue(c) == (CHOOSE i \in DOMAIN Digits : Digits[i] = c) - 1

RECURSIVE Strip(_)
\* str.strip() (the whitespace of the model is the space)
Strip(s) ==
    IF s = <<>> THEN s
    ELSE IF Head(s) = " " THEN Strip(Tail(s))
    ELSE IF s[Len(s)] = " " THEN Strip(SubSeq(s, 1, Len(s) - 1))
    ELSE s

RECURSIVE DecimalValue(_)
\* the number a sequence of digits writes
DecimalValue(ds) ==
    IF ds = <<>> THEN 0
    ELSE 10 * DecimalValue(SubSeq(ds, 1, Len(ds) - 1)) + DigitValue(ds[Len(ds)])

RECURSIVE Pow10(_)
Pow10(n) == IF n = 0 THEN 1 ELSE 10 * Pow10(n - 1)

RECURSIVE DecimalDigits(_)
\* the digits that write a natural number
DecimalDigits(n) ==
    IF n < 10 THEN <<Digits[n + 1]>>
    ELSE DecimalDigits(n \div 10) \o <<Digits[(n % 10) + 1]>>

PointAt(s) == IF \E i \in DOMAIN s : s[i] = "."
              THEN CHOOSE i \in DOMAIN s : s[i] = "."
              ELSE Len(s) + 1

\* float(str): surrounding whitespace is ignored, then an optional sign and
\* nan / inf / infinity in any case, or a decimal numeral; anything else
\* raises ValueError.  (Exponents and digit-group underscores are not in the
\* model's alphabet.)
ParseFloat(str) ==
    LET s == Strip(str)
        signed == s # <<>> /\ Head(s) \in {"+", "-"}
        neg == signed /\ Head(s) = "-"
        body == IF signed THEN Tail(s) ELSE s
        word == Lower(body)
        p == PointAt(body)
        ip == SubSeq(body, 1, p - 1)
        fp == SubSeq(body, p + 1, Len(body))
        numeral == /\ \A i \in DOMAIN ip : IsDigit(ip[i])
                   /\ \A i \in DOMAIN fp : IsDigit(fp[i])
                   /\ Len(ip) + Len(fp) > 0
        mag == (DecimalValue(ip \o fp) * Resolution) \div Pow10(Len(fp))
    IN  IF word = <<"n", "a", "n">> THEN [ok |-> TRUE, val |-> NaN]
        ELSE IF word \in {<<"i", "n", "f">>, <<"i", "n", "f", "i", "n", "i", "t", "y">>}
             THEN [ok |-> TRUE, val |-> IF neg THEN NegInf ELSE PosInf]
        ELSE IF numeral THEN [ok |-> TRUE, val |-> Fin(IF neg THEN -mag ELSE mag)]
        ELSE [ok |-> FALSE, val |-> NaN]

\* repr(float), with one digit after the point
FormatFloat(x) ==
    IF x.k = "nan" THEN <<"n", "a", "n">>
    ELSE IF x.k = "inf" THEN <<"i", "n", "f">>
    ELSE IF x.k = "ninf" THEN <<"-", "i", "n", "f">>
    ELSE LET a == IF x.v < 0 THEN -x.v ELSE x.v
         IN  (IF x.v < 0 THEN <<"-">> ELSE <<>>)
             \o DecimalDigits(a \div Resolution)
             \o <<".">>
             \o DecimalDigits(((a % Resolution) * 10) \div Resolution)

(* ---------------------------- JSON values ----------------------------- *)

JAbsent == [t |-> "absent", n |-> NaN, s |-> <<>>]
JNull == [t |-> "null", n |-> NaN, s |-> <<>>]
JArray == [t |-> "array", n |-> NaN, s |-> <<>>]
JBool(b) == [t |-> "bool", n |-> Fin(IF b THEN Resolution ELSE 0), s |-> <<>>]
JNum(x) == [t |-> "number", n |-> x, s |-> <<>>]
JStr(s) == [t |-> "string", n |-> NaN, s |-> s]

\* a request body: a JSON object holding some of the four keys (other keys
\* are never read), or a JSON value that is no object
JObject(c, h, s, m) ==
    [t |-> "object", c_rate |-> c, t_hours |-> h, init_soc |-> s, model |-> m]
JNonObject(type) ==
    [t |-> type, c_rate |-> JAbsent, t_hours |-> JAbsent, init_soc |-> JAbsent,
     model |-> JAbsent]

\* dict.get(key, default)
Get(data, key, default) == IF data[key].t = "absent" THEN default ELSE data[key]

\* float(x): [ok, val] or [ok = FALSE, err = str(e)]
Float(x) ==
    IF x.t = "number" \/ x.t = "bool" THEN [ok |-> TRUE, val |-> x.n, err |-> ""]
    ELSE IF x.t = "string"
         THEN IF ParseFloat(x.s).ok
              THEN [ok |-> TRUE, val |-> ParseFloat(x.s).val, err |-> ""]
              ELSE [ok |-> FALSE, val |-> NaN,
                    err |-> "could not convert string to float"]
    ELSE [ok |-> FALSE, val |-> NaN,
          err |-> "float() argument must be a string or a real number"]

\* str(x)
Str(x) ==
    IF x.t = "string" THEN x.s
    ELSE IF x.t = "number" THEN FormatFloat(x.n)
    ELSE IF x.t = "bool"
         THEN IF x.n = Fin(0) THEN <<"F", "a", "l", "s", "e">>
              ELSE <<"T", "r", "u", "e">>
    ELSE IF x.t = "null" THEN <<"N", "o", "n", "e">>
    ELSE <<"[", "]">>

(* ------------------------- api_run: validation ------------------------ *)

DefaultCRate == JNum(Fin(Resolution))
\* mutant: a missing t_hours defaults to the smallest positive duration
DefaultTHoursSmallest == JNum(Fin(1))
DefaultTHours == JNum(Fin(Resolution))
DefaultInitSoc == JNum(Fin(Resolution))
DefaultModel == JStr(<<"S", "P", "M">>)

SPM == <<"S", "P", "M">>
THEVENIN == <<"T", "H", "E", "V", "E", "N", "I", "N">>
Thevenin == <<"T", "h", "e", "v", "e", "n", "i", "n">>

NoArgs == [c_rate |-> NaN, t_hours |-> NaN, init_soc |-> NaN, model_name |-> <<>>]

BadRequest(msg) == [ok |-> FALSE, status |-> 400, error |-> msg, args |-> NoArgs]

\* c_rate <= 0
CRateRejected(c_rate) == Le(c_rate, Fin(0))

\* t_hours <= 0
THoursRejected(t_hours) == Le(t_hours, Fin(0))

\* mutant: the upper end of the range is not checked
InitSocRejectedLowerOnly(init_soc) == ~Le(Fin(0), init_soc)

\* not (0.0 <= init_soc <= 1.0)
InitSocRejected(init_soc) ==
    ~(Le(Fin(0), init_soc) /\ Le(init_soc, Fin(Resolution)))

\* model_name not in ["SPM", "THEVENIN"]
ModelRejected(model_name) == model_name \notin {SPM, THEVENIN}

\* mutant: the upper-cased name is passed on as it is
NormalizeIdentity(model_name) == model_name

\* "SPM" if model_name == "SPM" else "Thevenin"
Normalize(model_name) == IF model_name = SPM THEN SPM ELSE Thevenin

\* mutant: the model is checked before the numbers
RangeCheckModelFirst(c_rate, t_hours, init_soc, model_name) ==
    IF ModelRejected(model_name) THEN "model must be SPM or THEVENIN"
    ELSE IF CRateRejected(c_rate) THEN "c_rate must be > 0"
    ELSE IF THoursRejected(t_hours) THEN "t_hours must be > 0"
    ELSE IF InitSocRejected(init_soc) THEN "init_soc must be in [0, 1]"
    ELSE ""

\* the four range checks, in the order api_run makes them: the message of the
\* first that fails, or "" when all pass
RangeCheck(c_rate, t_hours, init_soc, model_name) ==
    IF CRateRejected(c_rate) THEN "c_rate must be > 0"
    ELSE IF THoursRejected(t_hours) THEN "t_hours must be > 0"
    ELSE IF InitSocRejected(init_soc) THEN "init_soc must be in [0, 1]"
    ELSE IF ModelRejected(model_name) THEN "model must be SPM or THEVENIN"
    ELSE ""

\* the first try block of api_run: the outcome of validating the body
Validate(data) ==
    LET c == Float(Get(data, "c_rate", DefaultCRate))
        h == Float(Get(data, "t_hours", DefaultTHours))
        s == Float(Get(data, "init_soc", DefaultInitSoc))
        m == Upper(Str(Get(data, "model", DefaultModel)))
    IN  IF data.t # "object"
        THEN BadRequest("Invalid input: " \o "object has no attribute 'get'")
        ELSE IF ~c.ok THEN BadRequest("Invalid input: " \o c.err)
        ELSE IF ~h.ok THEN BadRequest("Invalid input: " \o h.err)
        ELSE IF ~s.ok THEN BadRequest("Invalid input: " \o s.err)
        ELSE IF RangeCheck(c.val, h.val, s.val, m) # ""
             THEN BadRequest(RangeCheck(c.val, h.val, s.val, m))
        ELSE [ok |-> TRUE, status |-> 0, error |-> "",
              args |-> [c_rate |-> c.val, t_hours |-> h.val, init_soc |-> s.val,
                        model_name |-> Normalize(m)]]

(* ------------------------ run_pybamm_simulation ----------------------- *)

\* nominal_capacity_ah = 5.0
nominal_capacity_ah == Fin(5 * Resolution)

\* np.ones_like(t)
OnesLike(t) == [i \in 1..Len(t) |-> Fin(Resolution)]

\* mutant: the sign is not flipped
ApproxCurrentPositive(t, c_rate) ==
    [i \in 1..Len(t) |-> Mul(OnesLike(t)[i], Mul(c_rate, nominal_capacity_ah))]

\* I = np.ones_like(t) * (c_rate * nominal_capacity_ah); I = -I
ApproxCurrent(t, c_rate) ==
    [i \in 1..Len(t) |-> Neg(Mul(OnesLike(t)[i], Mul(c_rate, nominal_capacity_ah)))]

\* the model class the adapter constructs
SelectModel(model_name) ==
    IF model_name = SPM THEN "pybamm.lithium_ion.SPM" ELSE "pybamm.lithium_ion.Thevenin"

\* np.min(V) and np.max(V) raise ValueError on an empty array
ReductionRaises(V) == Len(V) = 0

ArrayMin(V) == CHOOSE x \in {V[i] : i \in DOMAIN V} : \A i \in DOMAIN V : Le(x, V[i])
ArrayMax(V) == CHOOSE x \in {V[i] : i \in DOMAIN V} : \A i \in DOMAIN V : Le(V[i], x)

\* the meta dictionary
Meta(args, t, V) ==
    [model |-> args.model_name,
     parameter_set |-> "Chen2020",
     inputs |-> [c_rate |-> args.c_rate, t_hours |-> args.t_hours,
                 init_soc |-> args.init_soc],
     outputs |-> [n_points |-> Len(t), v_min |-> ArrayMin(V), v_max |-> ArrayMax(V)]]

(* -------------------- make_voltage_plot_png_base64 -------------------- *)

\* t_s / 60.0
Minutes(t_s) == [i \in 1..Len(t_s) |-> Div(t_s[i], Fin(60 * Resolution))]

\* mutant: the plot accepts arrays of different lengths
PlotNeverRaises(x, y) == FALSE

\* ax.plot(x, y) raises ValueError unless x and y have the same first dimension
PlotRaises(x, y) == Len(x) # Len(y)

PlotError == "x and y must have same first dimension"

\* the figure plt.figure() returns, before anything is drawn on it
EmptyFigure == [x |-> <<>>, y |-> <<>>, tight |-> FALSE]

\* the bytes fig.savefig(buf, format="png", dpi=160) writes: they are decided
\* by what the figure holds when it is saved
Png(figure) == [format |-> "png", dpi |-> 160, x |-> figure.x, y |-> figure.y,
                tight |-> figure.tight]

\* f"data:image/png;base64,{b64}"
DataUri(png) == [prefix |-> "data:image/png;base64,", b64 |-> png]

(* ------------------------------ responses ----------------------------- *)

NoResponse == [status |-> 0, body |-> [pending |-> TRUE]]

\* jsonify({"error": msg}), 400
InvalidInput(msg) == [status |-> 400, body |-> [error |-> msg]]

\* mutant: the exception's text is withheld
SimulationFailedOpaque(text) == [status |-> 500, body |-> [error |-> "Simulation failed"]]

\* jsonify({"error": f"Simulation failed: {str(e)}"}), 500
SimulationFailed(text) == [status |-> 500, body |-> [error |-> "Simulation failed: " \o text]]

\* jsonify({"result": result, "plot_png_base64": plot_b64})
Success(s, plot_b64) ==
    [status |-> 200,
     body |-> [result |-> [meta |-> s.meta,
                           series |-> [time_s |-> s.t, voltage_v |-> s.V,
                                       current_a |-> s.I]],
               plot_png_base64 |-> plot_b64]]

(* ------------------------- the external solver ------------------------ *)

\* what sim.solve() and the two solution queries can produce: an exception,
\* or a time axis and a voltage array (the solver is a black box: any lengths)
SolverErrors == {"SolverError: step size too small", "Events triggered before start"}
RendererErrors == {"bad allocation"}

TimeAxes == {[i \in 1..n |-> Fin(60 * Resolution * (i - 1))] : n \in 0..MaxLen}
\* discharge curves: the voltage falls from 4 V by one unit a point
VoltageCurves == {[i \in 1..n |-> Fin(4 * Resolution - (i - 1))] : n \in 0..MaxLen}

SolverOutcomes ==
    {[raised |-> TRUE, text |-> e, t |-> <<>>, V |-> <<>>] : e \in SolverErrors}
    \cup {[raised |-> FALSE, text |-> "", t |-> t, V |-> V] :
            t \in TimeAxes, V \in VoltageCurves}

NoSolution == [t |-> <<>>, V |-> <<>>, I |-> <<>>, model |-> "",
               meta |-> [model |-> <<>>]]

\* run_pybamm_simulation(c_rate, t_hours, init_soc, model_name) when the
\* solver's outcome is out: the exception that escapes, or (t, V, I, meta)
RunPybammSimulation(a, out) ==
    IF out.raised THEN [raised |-> TRUE, text |-> out.text, value |-> NoSolution]
    ELSE IF ReductionRaises(out.V)
         THEN [raised |-> TRUE,
               text |-> "zero-size array to reduction operation minimum which has no identity",
               value |-> NoSolution]
    ELSE [raised |-> FALSE, text |-> "",
          value |-> [t |-> out.t, V |-> out.V, I |-> ApproxCurrent(out.t, a.c_rate),
                     model |-> SelectModel(a.model_name),
                     meta |-> Meta(a, out.t, out.V)]]

(* ---------------------------- request bodies -------------------------- *)

S_nan == <<"n", "a", "n">>
S_inf == <<"i", "n", "f">>
S_neginf == <<"-", "I", "n", "f">>
S_abc == <<"a", "b", "c">>
S_half == <<" ", "0", ".", "5", " ">>
S_three_halves == <<"1", ".", "5">>

CRateInputs ==
    {JAbsent, JNum(Fin(0)), JNum(Fin(1)), JNum(Fin(-1)), JNum(NaN), JStr(S_nan),
     JStr(S_inf), JStr(S_neginf), JStr(S_abc), JNull}
THoursInputs ==
    {JAbsent, JNum(Fin(0)), JNum(Fin(Resolution)), JStr(S_nan), JStr(S_abc), JArray}
InitSocInputs ==
    {JAbsent, JNum(Fin(0)), JNum(Fin(1)), JNum(Fin(Resolution + 1)), JNum(Fin(-1)),
     JStr(S_nan), JStr(S_half), JStr(S_three_halves), JBool(TRUE), JNull}

\* every way of writing a word in upper and lower case
Casings(w) ==
    {[i \in 1..Len(w) |-> IF i \in U THEN UpperChar(w[i]) ELSE LowerChar(w[i])] :
        U \in SUBSET (1..Len(w))}

ModelInputsShort ==
    {JAbsent, JStr(<<"s", "p", "m">>), JStr(Thevenin), JStr(<<"f", "o", "o">>)}
ModelInputs ==
    {JStr(s) : s \in Casings(SPM) \cup Casings(THEVENIN)}
    \cup {JStr(<<>>), JStr(<<"S", "P", "M", " ">>), JStr(<<"S", "P">>),
          JStr(THEVENIN \o <<"S">>), JNull, JBool(TRUE), JNum(Fin(Resolution)), JArray}

\* the bodies a single-threaded run draws from
RequestBodies ==
    {JObject(c, h, s, m) : c \in CRateInputs, h \in THoursInputs,
                           s \in InitSocInputs, m \in ModelInputsShort}
    \cup {JObject(JAbsent, JAbsent, JAbsent, m) : m \in ModelInputs}
    \cup {JNonObject(type) : type \in {"null", "array", "number", "string", "bool"}}

\* the bodies two concurrent requests draw from
ConcurrentBodies ==
    {JObject(JAbsent, JAbsent, JAbsent, JAbsent),
     JObject(JNum(Fin(0)), JAbsent, JAbsent, JAbsent)}

(* ----------------------------- the server ----------------------------- *)

Threads == {"t1", "t2"}

VARIABLES
    active,          \* the threads the server handles requests on
    nreq,            \* requests received so far
    pc,              \* each thread's position in api_run
    reqno,           \* the serial number of the request a thread handles
    data,            \* api_run's local data
    args,            \* api_run's locals c_rate, t_hours, init_soc, model_name
    sol,             \* api_run's locals t, V, I, meta
    fig,             \* make_voltage_plot_png_base64's local fig (a figure object)
    buf,             \* make_voltage_plot_png_base64's local buf
    resp,            \* the response sent
    exc,             \* str(e) of the exception the second try block caught
    adapter_calls,   \* calls of run_pybamm_simulation made for the request
    renderer_calls,  \* calls of make_voltage_plot_png_base64 made for the request
    layout_target,   \* the figure the request's plt.tight_layout() acted on
    figs,            \* pyplot's registry of open figures, the current figure last
    canvas           \* what the figure of each running request holds

vars == <<active, nreq, pc, reqno, data, args, sol, fig, buf, resp, exc, adapter_calls,
          renderer_calls, layout_target, figs, canvas>>

NoData == JNonObject("none")
NoFigure == 0
NoBuf == [format |-> "none"]
NoException == "(none)"

\* the state when app.run() starts serving on the threads T
Start(T) ==
    /\ active = T
    /\ nreq = 0
    /\ pc = [p \in Threads |-> "idle"]
    /\ reqno = [p \in Threads |-> 0]
    /\ data = [p \in Threads |-> NoData]
    /\ args = [p \in Threads |-> NoArgs]
    /\ sol = [p \in Threads |-> NoSolution]
    /\ fig = [p \in Threads |-> NoFigure]
    /\ buf = [p \in Threads |-> NoBuf]
    /\ resp = [p \in Threads |-> NoResponse]
    /\ exc = [p \in Threads |-> NoException]
    /\ adapter_calls = [p \in Threads |-> 0]
    /\ renderer_calls = [p \in Threads |-> 0]
    /\ layout_target = [p \in Threads |-> NoFigure]
    /\ figs = <<>>
    /\ canvas = [f \in {} |-> EmptyFigure]

Init == Start({"t1"})

InitThreaded == Start(Threads)

Bodies == IF Cardinality(active) = 1 THEN RequestBodies ELSE ConcurrentBodies

\* plt.gcf(): the current figure
Gcf == figs[Len(figs)]

\* Gcf.destroy_fig(f)
Destroy(registry, f) == SelectSeq(registry, LAMBDA g : g # f)

\* api_run up to the end of its first try block: the body arrives and is
\* validated
Receive(p) ==
    /\ p \in active
    /\ pc[p] = "idle"
    /\ nreq < MaxRequests
    /\ nreq' = nreq + 1
    /\ reqno' = [reqno EXCEPT ![p] = nreq + 1]
    /\ \E body \in Bodies :
         /\ data' = [data EXCEPT ![p] = body]
         /\ IF Validate(body).ok
            THEN /\ args' = [args EXCEPT ![p] = Validate(body).args]
                 /\ pc' = [pc EXCEPT ![p] = "validated"]
                 /\ resp' = resp
            ELSE /\ args' = args
                 /\ pc' = [pc EXCEPT ![p] = "done"]
                 /\ resp' = [resp EXCEPT ![p] = InvalidInput(Validate(body).error)]
    /\ UNCHANGED <<active, sol, fig, buf, exc, adapter_calls, renderer_calls,
                   layout_target, figs, canvas>>

\* t, V, I, meta = run_pybamm_simulation(c_rate, t_hours, init_soc, model_name)
Simulate(p) ==
    /\ pc[p] = "validated"
    /\ adapter_calls' = [adapter_calls EXCEPT ![p] = @ + 1]
    /\ \E out \in SolverOutcomes :
         LET r == RunPybammSimulation(args[p], out)
         IN  IF r.raised
             THEN /\ exc' = [exc EXCEPT ![p] = r.text]
                  /\ resp' = [resp EXCEPT ![p] = SimulationFailed(r.text)]
                  /\ pc' = [pc EXCEPT ![p] = "done"]
                  /\ sol' = sol
             ELSE /\ sol' = [sol EXCEPT ![p] = r.value]
                  /\ pc' = [pc EXCEPT ![p] = "simulated"]
                  /\ UNCHANGED <<resp, exc>>
    /\ UNCHANGED <<active, nreq, reqno, data, args, fig, buf, renderer_calls,
                   layout_target, figs, canvas>>

\* make_voltage_plot_png_base64 from fig = plt.figure() to ax.grid(True): the
\* new figure is registered and becomes the current one, then the line is drawn
CreateFigure(p) ==
    /\ pc[p] = "simulated"
    /\ renderer_calls' = [renderer_calls EXCEPT ![p] = @ + 1]
    /\ fig' = [fig EXCEPT ![p] = reqno[p]]
    /\ figs' = Append(figs, reqno[p])
    /\ IF PlotRaises(Minutes(sol[p].t), sol[p].V)
       THEN /\ canvas' = [f \in DOMAIN canvas \cup {reqno[p]} |->
                            IF f = reqno[p] THEN EmptyFigure ELSE canvas[f]]
            /\ exc' = [exc EXCEPT ![p] = PlotError]
            /\ resp' = [resp EXCEPT ![p] = SimulationFailed(PlotError)]
            /\ pc' = [pc EXCEPT ![p] = "done"]
       ELSE /\ canvas' = [f \in DOMAIN canvas \cup {reqno[p]} |->
                            IF f = reqno[p]
                            THEN [x |-> Minutes(sol[p].t), y |-> sol[p].V, tight |-> FALSE]
                            ELSE canvas[f]]
            /\ UNCHANGED <<resp, exc>>
            /\ pc' = [pc EXCEPT ![p] = "figure"]
    /\ UNCHANGED <<active, nreq, reqno, data, args, sol, buf, adapter_calls,
                   layout_target>>

\* plt.tight_layout(): lays out the current figure
TightLayout(p) ==
    /\ pc[p] = "figure"
    /\ layout_target' = [layout_target EXCEPT ![p] = Gcf]
    /\ canvas' = [f \in DOMAIN canvas |->
                    IF f = Gcf THEN [canvas[f] EXCEPT !.tight = TRUE] ELSE canvas[f]]
    /\ pc' = [pc EXCEPT ![p] = "layout"]
    /\ UNCHANGED <<active, nreq, reqno, data, args, sol, fig, buf, resp, exc,
                   adapter_calls, renderer_calls, figs>>

\* fig.savefig(buf, format="png", dpi=160), which may raise
SaveFig(p) ==
    /\ pc[p] = "layout"
    /\ \/ /\ buf' = [buf EXCEPT ![p] = Png(canvas[fig[p]])]
          /\ pc' = [pc EXCEPT ![p] = "saved"]
          /\ UNCHANGED <<resp, exc>>
       \/ \E e \in RendererErrors :
            /\ exc' = [exc EXCEPT ![p] = e]
            /\ resp' = [resp EXCEPT ![p] = SimulationFailed(e)]
            /\ pc' = [pc EXCEPT ![p] = "done"]
            /\ buf' = buf
    /\ UNCHANGED <<active, nreq, reqno, data, args, sol, fig, adapter_calls,
                   renderer_calls, layout_target, figs, canvas>>

\* plt.close(fig), the base64 data URI, and the 200 response
Close(p) ==
    /\ pc[p] = "saved"
    /\ figs' = Destroy(figs, fig[p])
    /\ resp' = [resp EXCEPT ![p] = Success(sol[p], DataUri(buf[p]))]
    /\ pc' = [pc EXCEPT ![p] = "done"]
    /\ UNCHANGED <<active, nreq, reqno, data, args, sol, fig, buf, exc,
                   adapter_calls, renderer_calls, layout_target, canvas>>

\* api_run has returned and its locals are gone.  (Of a figure that no running
\* request refers to, only the registration in figs is kept track of.)
Return(p) ==
    /\ pc[p] = "done"
    /\ pc' = [pc EXCEPT ![p] = "idle"]
    /\ reqno' = [reqno EXCEPT ![p] = 0]
    /\ data' = [data EXCEPT ![p] = NoData]
    /\ args' = [args EXCEPT ![p] = NoArgs]
    /\ sol' = [sol EXCEPT ![p] = NoSolution]
    /\ fig' = [fig EXCEPT ![p] = NoFigure]
    /\ buf' = [buf EXCEPT ![p] = NoBuf]
    /\ resp' = [resp EXCEPT ![p] = NoResponse]
    /\ exc' = [exc EXCEPT ![p] = NoException]
    /\ adapter_calls' = [adapter_calls EXCEPT ![p] = 0]
    /\ renderer_calls' = [renderer_calls EXCEPT ![p] = 0]
    /\ layout_target' = [layout_target EXCEPT ![p] = NoFigure]
    /\ canvas' = [f \in {g \in DOMAIN canvas : \E q \in Threads \ {p} : fig[q] = g} |->
                    canvas[f]]
    /\ UNCHANGED <<active, nreq, figs>>

Next ==
    \E p \in Threads :
        \/ Receive(p)
        \/ Simulate(p)
        \/ CreateFigure(p)
        \/ TightLayout(p)
        \/ SaveFig(p)
        \/ Close(p)
        \/ Return(p)

Spec == Init /\ [][Next]_vars

SpecThreaded == InitThreaded /\ [][Next]_vars

(* ------------------------------- claims ------------------------------- *)

\* the body with every omitted key written out with the documented default
\* (c_rate = 1.0, t_hours = 1.0, init_soc = 1.0, model = "SPM")
WithDefaults(d) ==
    JObject(IF d.c_rate.t = "absent" THEN JNum(Fin(Resolution)) ELSE d.c_rate,
            IF d.t_hours.t = "absent" THEN JNum(Fin(Resolution)) ELSE d.t_hours,
            IF d.init_soc.t = "absent" THEN JNum(Fin(Resolution)) ELSE d.init_soc,
            IF d.model.t = "absent" THEN JStr(<<"S", "P", "M">>) ELSE d.model)

EmptyObject == JObject(JAbsent, JAbsent, JAbsent, JAbsent)

NotCoercible(d) ==
    \/ d.t # "object"
    \/ ~Float(WithDefaults(d).c_rate).ok
    \/ ~Float(WithDefaults(d).t_hours).ok
    \/ ~Float(WithDefaults(d).init_soc).ok

Coerced(d, key) == Float(WithDefaults(d)[key]).val

UpperCasedModel(d) == Upper(Str(WithDefaults(d).model))

InvalidRequest(d) ==
    \/ NotCoercible(d)
    \/ Le(Coerced(d, "c_rate"), Fin(0))
    \/ Le(Coerced(d, "t_hours"), Fin(0))
    \/ ~(Le(Fin(0), Coerced(d, "init_soc")) /\ Le(Coerced(d, "init_soc"), Fin(Resolution)))
    \/ UpperCasedModel(d) \notin {<<"S", "P", "M">>, <<"T", "H", "E", "V", "E", "N", "I", "N">>}

\* C1: a request whose coerced c_rate is <= 0, whose coerced t_hours is <= 0,
\* whose coerced init_soc is outside [0, 1], whose upper-cased model is neither
\* SPM nor THEVENIN, or whose body cannot be coerced (or is no object) is
\* answered 400 with a body holding only "error", and neither the adapter nor
\* the renderer is called for it.
C1_InvalidInputIs400 ==
    \A p \in Threads :
        (pc[p] # "idle" /\ InvalidRequest(data[p])) =>
            /\ pc[p] = "done"
            /\ resp[p].status = 400
            /\ DOMAIN resp[p].body = {"error"}
            /\ adapter_calls[p] = 0
            /\ renderer_calls[p] = 0

C1_Witness ==
    \E p \in Threads :
        /\ data[p] = JObject(JAbsent, JAbsent, JNum(Fin(Resolution + 1)), JAbsent)
        /\ resp[p].status = 400
        /\ adapter_calls[p] = 0

\* C2: when the adapter or the renderer raises, the response is 500 with body
\* {"error": "Simulation failed: " + the raised text}, nothing else in the
\* body, and the adapter was called exactly once.
C2_FailureIs500 ==
    \A p \in Threads :
        exc[p] # NoException =>
            /\ pc[p] = "done"
            /\ resp[p].status = 500
            /\ DOMAIN resp[p].body = {"error"}
            /\ resp[p].body.error = "Simulation failed: " \o exc[p]
            /\ adapter_calls[p] = 1

C2_Witness ==
    \E p \in Threads :
        /\ exc[p] \in RendererErrors
        /\ renderer_calls[p] = 1
        /\ resp[p].status = 500

\* C3: every 200 response carries time_s, voltage_v and current_a of equal,
\* positive length, whatever arrays the solver returned.
C3_SeriesEqualLength ==
    \A p \in Threads :
        resp[p].status = 200 =>
            LET series == resp[p].body.result.series
            IN  /\ Len(series.time_s) = Len(series.voltage_v)
                /\ Len(series.voltage_v) = Len(series.current_a)
                /\ Len(series.time_s) > 0

C3_Witness ==
    \E p \in Threads :
        /\ resp[p].status = 200
        /\ Len(resp[p].body.result.series.time_s) = MaxLen
        /\ Len(resp[p].body.result.series.current_a) = MaxLen

\* C4: in every 200 response each element of current_a is -(c_rate * 5.0),
\* c_rate being the request's validated value (1.0 when omitted).
C4_CurrentIsMinusFiveCRate ==
    \A p \in Threads :
        resp[p].status = 200 =>
            \A i \in DOMAIN resp[p].body.result.series.current_a :
                resp[p].body.result.series.current_a[i]
                    = Neg(Mul(Coerced(data[p], "c_rate"), Fin(5 * Resolution)))

C4_Witness ==
    \E p \in Threads :
        /\ resp[p].status = 200
        /\ data[p].c_rate = JNum(Fin(1))
        /\ Len(resp[p].body.result.series.current_a) = MaxLen
        /\ resp[p].body.result.series.current_a[1] = Fin(-5)

\* C5: each omitted key takes its default independently: the request is
\* validated, and the adapter called, exactly as for the same body with the
\* omitted keys written out with their defaults; {} reaches the adapter as
\* (1.0, 1.0, 1.0, "SPM").
C5_DefaultsPerField ==
    \A p \in Threads :
        (pc[p] # "idle" /\ data[p].t = "object") =>
            /\ Validate(data[p]) = Validate(WithDefaults(data[p]))
            /\ resp[p].status # 400 => args[p] = Validate(WithDefaults(data[p])).args
            /\ (resp[p].status = 400) = ~Validate(WithDefaults(data[p])).ok
            /\ data[p] = EmptyObject =>
                  /\ resp[p].status # 400
                  /\ args[p] = [c_rate |-> Fin(Resolution), t_hours |-> Fin(Resolution),
                                init_soc |-> Fin(Resolution),
                                model_name |-> <<"S", "P", "M">>]

C5_Witness ==
    \E p \in Threads :
        /\ data[p] = JObject(JNum(Fin(1)), JAbsent, JAbsent, JAbsent)
        /\ adapter_calls[p] = 1
        /\ args[p].t_hours = Fin(Resolution)

IsCasingOf(s, w) ==
    /\ Len(s) = Len(w)
    /\ \A i \in 1..Len(w) : s[i] \in {w[i], LowerChar(w[i])}

\* C6: the adapter is only ever called with model_name "SPM" or "Thevenin";
\* any casing of spm gives "SPM" and the single-particle model, any casing of
\* thevenin gives "Thevenin" and the equivalent-circuit model, and meta.model
\* is that identifier.
C6_ModelNormalized ==
    \A p \in Threads :
        /\ adapter_calls[p] > 0 =>
              args[p].model_name \in {<<"S", "P", "M">>,
                                      <<"T", "h", "e", "v", "e", "n", "i", "n">>}
        /\ (pc[p] # "idle" /\ data[p].model.t = "string" /\ ~InvalidRequest(data[p])) =>
              /\ resp[p].status # 400
              /\ IsCasingOf(data[p].model.s, <<"S", "P", "M">>) =>
                    args[p].model_name = <<"S", "P", "M">>
              /\ IsCasingOf(data[p].model.s, <<"T", "H", "E", "V", "E", "N", "I", "N">>) =>
                    args[p].model_name = <<"T", "h", "e", "v", "e", "n", "i", "n">>
        /\ sol[p].model # "" =>
              sol[p].model = IF args[p].model_name = <<"S", "P", "M">>
                             THEN "pybamm.lithium_ion.SPM"
                             ELSE "pybamm.lithium_ion.Thevenin"
        /\ resp[p].status = 200 => resp[p].body.result.meta.model = args[p].model_name

C6_Witness ==
    \E p \in Threads :
        /\ data[p].model = JStr(<<"t", "H", "e", "V", "e", "N", "i", "N">>)
        /\ resp[p].status = 200
        /\ resp[p].body.result.meta.model = <<"T", "h", "e", "v", "e", "n", "i", "n">>
        /\ sol[p].model = "pybamm.lithium_ion.Thevenin"

\* C7: once a request has completed, with whatever outcome, every figure the
\* renderer created has been closed: while no request is being handled,
\* pyplot's registry of figures is as it was when the server started (empty).
C7_NoFigureOutlivesRequest ==
    (\A p \in Threads : pc[p] \in {"idle", "done"}) => figs = <<>>

\* C8: with two requests handled concurrently, each request's render steps
\* act on the figure that request created, and the plot in its response is the
\* rendering of its own time and voltage series.
C8_RenderStepsOwnFigure ==
    \A p \in Threads :
        /\ layout_target[p] # NoFigure => layout_target[p] = fig[p]
        /\ resp[p].status = 200 =>
              /\ resp[p].body.plot_png_base64.b64.x = Minutes(sol[p].t)
              /\ resp[p].body.plot_png_base64.b64.y = sol[p].V

CoercionReasons ==
    {"could not convert string to float",
     "float() argument must be a string or a real number",
     "object has no attribute 'get'"}

\* C9: the 400 message is that of the first failing check: coercion of the
\* four fields ("Invalid input: <reason>"), then c_rate, t_hours, init_soc,
\* model; c_rate = 0, init_soc = 1.5 and model = "foo" alone each give their
\* own message.
C9_FirstFailingCheck ==
    \A p \in Threads :
        /\ resp[p].status = 400 =>
              resp[p].body.error =
                 IF NotCoercible(data[p]) THEN resp[p].body.error
                 ELSE IF Le(Coerced(data[p], "c_rate"), Fin(0)) THEN "c_rate must be > 0"
                 ELSE IF Le(Coerced(data[p], "t_hours"), Fin(0)) THEN "t_hours must be > 0"
                 ELSE IF ~(/\ Le(Fin(0), Coerced(data[p], "init_soc"))
                           /\ Le(Coerced(data[p], "init_soc"), Fin(Resolution)))
                      THEN "init_soc must be in [0, 1]"
                 ELSE "model must be SPM or THEVENIN"
        /\ (resp[p].status = 400 /\ NotCoercible(data[p])) =>
              resp[p].body.error \in {"Invalid input: " \o r : r \in CoercionReasons}
        /\ (pc[p] # "idle" /\ data[p] = JObject(JNum(Fin(0)), JAbsent, JAbsent, JAbsent)) =>
              resp[p] = [status |-> 400, body |-> [error |-> "c_rate must be > 0"]]
        /\ (pc[p] # "idle"
            /\ data[p] = JObject(JAbsent, JAbsent, JStr(<<"1", ".", "5">>), JAbsent)) =>
              resp[p] = [status |-> 400, body |-> [error |-> "init_soc must be in [0, 1]"]]
        /\ (pc[p] # "idle"
            /\ data[p] = JObject(JAbsent, JAbsent, JAbsent, JStr(<<"f", "o", "o">>))) =>
              resp[p] = [status |-> 400, body |-> [error |-> "model must be SPM or THEVENIN"]]

C9_Witness ==
    \E p \in Threads :
        /\ data[p] = JObject(JNum(Fin(0)), JNum(Fin(0)), JNum(Fin(Resolution + 1)),
                             JStr(<<"f", "o", "o">>))
        /\ resp[p].status = 400
        /\ resp[p].body.error = "c_rate must be > 0"

\* C10: whenever the adapter is called, its arguments satisfy c_rate > 0,
\* t_hours > 0 and 0 <= init_soc <= 1, also for bodies whose numbers coerce to
\* nan or an infinity.
C10_AdapterArgsValidated ==
    \A p \in Threads :
        adapter_calls[p] > 0 =>
            /\ Gt(args[p].c_rate, Fin(0))
            /\ Gt(args[p].t_hours, Fin(0))
            /\ Le(Fin(0), args[p].init_soc)
            /\ Le(args[p].init_soc, Fin(Resolution))

====
